---- MODULE Spec2Model ----
(***************************************************************************)
(* Model of odin_softioc's PV-bound parameter tree                         *)
(* (src/src/odin_softioc/pv_parameter_tree.py): PvParameterAccessor, the   *)
(* live variable (PV record) it binds to, and the operations acting on     *)
(* them.                                                                   *)
(*                                                                         *)
(* A Python value is a record [ty, n]: its type name and a small payload.  *)
(* An accessor is a record of the fields PvParameterAccessor.__init__      *)
(* sets; a PV record is a record of the fields DummyPvRecord.__init__      *)
(* sets.  Every method is an operator from (accessor, source) to a result  *)
(* record [a, s, ret, err, nset]: the accessor and the application state   *)
(* after the call, the returned value, the exception raised ("ok" when     *)
(* none) and the number of on_set invocations the call made.               *)
(***************************************************************************)
EXTENDS Integers, Sequences, FiniteSets, TLC

VARIABLES
    acc,      \* accessor name -> PvParameterAccessor fields
    source,   \* accessor name -> application state read by on_get / written by on_set
    nrec,     \* number of PV records the builder has created
    last,     \* the last operation: what was called and what came back
    tree,     \* ParameterTree._tree: path of a plain leaf -> the value stored there
    bt,       \* path of a tree node -> the fields of its PvBoundTree
    counter,  \* the application counter read by the getter of the "counter" pair
    loop      \* the controller's ioloop: what runs on it and where update_pvs stands

vars == <<acc, source, nrec, last, tree, bt, counter, loop>>

----------------------------------------------------------------------------
(* Bounds *)

\* payloads of the values offered to the operations are 0..MaxVal
MaxVal == 1
\* the builder creates at most MaxRecords PV records in one behaviour
MaxRecords == 2

----------------------------------------------------------------------------
(* Python values and types *)

PyVal(t, k) == [ty |-> t, n |-> k]
NoneVal == PyVal("NoneType", 0)

\* the declared types the model draws accessors from: the four the record
\* tables know, and one (list) they do not
DeclTypes == {"int", "float", "bool", "str", "list"}

ValuesOf(t) == {PyVal(t, k) : k \in 0..MaxVal}

\* one value of another type, offered beside the values of the declared type
ForeignOf(t) ==
    CASE t = "int"   -> {PyVal("str", 0), PyVal("bool", 1)}
      [] t = "float" -> {PyVal("int", 1), PyVal("str", 0)}
      [] OTHER       -> {PyVal("int", 1)}

\* isinstance(v, t): a bool is an instance of int
IsInstance(v, t) == v.ty = t \/ (t = "int" /\ v.ty = "bool")

\* the type check of the inherited public set: the value is an instance of the
\* declared type, or an int given to a float parameter
TypeAccepted(v, t) ==
    t = "NoneType" \/ IsInstance(v, t) \/ (IsInstance(v, "int") /\ t = "float")

----------------------------------------------------------------------------
(* Record kind tables *)

out_record_types ==
    [int |-> "longOut", float |-> "aOut", bool |-> "boolOut", str |-> "longStringOut"]

\* faulty variant of in_record_types: the int and float kinds are exchanged
in_record_types_Swapped ==
    [int |-> "aIn", float |-> "longIn", bool |-> "boolIn", str |-> "longStringIn"]

in_record_types ==
    [int |-> "longIn", float |-> "aIn", bool |-> "boolIn", str |-> "longStringIn"]

----------------------------------------------------------------------------
(* The live variable: DummyPvRecord *)

\* pushed is the record's own note of the last value written into it with
\* process=False (None until such a write is made)
NoPv ==
    [bound |-> FALSE, id |-> 0, kind |-> "none", value |-> NoneVal, on_update |-> "none",
     pushed |-> NoneVal]

\* DummyPvRecord.__init__ through the builder's record factory
DummyPvRecord(id, kind, initial_value, on_update) ==
    [bound |-> TRUE, id |-> id, kind |-> kind, value |-> initial_value,
     on_update |-> on_update, pushed |-> NoneVal]

\* DummyPvRecord.get
PvGet(pv) == pv.value

----------------------------------------------------------------------------
(* PvParameterAccessor *)

R(a, s, ret, err, nset) == [a |-> a, s |-> s, ret |-> ret, err |-> err, nset |-> nset]

\* PvParameterAccessor.__init__: the fields of a freshly constructed accessor
NewAccessor(writeable, on_get, on_set, type, initial_value) ==
    [writeable |-> writeable, on_get |-> on_get, on_set |-> on_set,
     type |-> type, value |-> initial_value, pv |-> NoPv]

is_external(a) == a.on_get /= "none"

is_writeable(a) == a.writeable

\* the on_get callback: returns the application state
OnGet(a, s) == s

\* the application state after on_get ran: a "count" getter (the controller's
\* get_access_count) increments the state it has just read
OnGetSource(a, s) == IF a.on_get = "count" THEN [s EXCEPT !.n = @ + 1] ELSE s

\* bool(value)
Truthy(v) == v.ty /= "NoneType" /\ v.n /= 0

\* the on_set callback: "store" writes the application state, "noop" only logs
OnSet(a, s, v) == IF a.on_set = "store" THEN v ELSE s

\* faulty variant of _get: the cached value is returned without asking on_get
_get_Cached(a, s) == R(a, s, a.value, "ok", 0)

_get(a, s) ==
    IF is_external(a)
    THEN LET v == OnGet(a, s)
         IN  R([a EXCEPT !.value = v], OnGetSource(a, s), v, "ok", 0)
    ELSE R(a, s, a.value, "ok", 0)

\* faulty variant of _inner_set: on_set is called, the cached value is not stored
_inner_set_NoStore(a, s, value) ==
    IF a.on_set /= "none"
    THEN R(a, OnSet(a, s, value), NoneVal, "ok", 1)
    ELSE R(a, s, NoneVal, "ok", 0)

_inner_set(a, s, value) ==
    LET a1 == [a EXCEPT !.value = value]
    IN  IF a.on_set /= "none"
        THEN R(a1, OnSet(a, s, value), NoneVal, "ok", 1)
        ELSE R(a1, s, NoneVal, "ok", 0)

\* faulty variant of PvSet: the record stores the value and runs no write callback
PvSet_NoCallback(a, s, value) ==
    R([a EXCEPT !.pv.value = value], s, NoneVal, "ok", 0)

\* DummyPvRecord.set: store the value, then run the write callback if one is
\* registered (bind registers _inner_set)
PvSet(a, s, value) ==
    LET a1 == [a EXCEPT !.pv.value = value]
    IN  IF a.pv.on_update = "_inner_set" THEN _inner_set(a1, s, value)
        ELSE R(a1, s, NoneVal, "ok", 0)

\* faulty variant of _set: a bound read-only accessor updates its own value only
_set_NoMirror(a, s, value) ==
    IF a.pv.bound /\ is_writeable(a) THEN PvSet(a, s, value)
    ELSE _inner_set(a, s, value)

\* faulty variant of _set: a bound accessor writes its live variable and leaves
\* the internal set to a write callback, registered or not
_set_PvOnly(a, s, value) ==
    IF a.pv.bound THEN PvSet(a, s, value)
    ELSE _inner_set(a, s, value)

\* faulty variant of _set: a bound accessor runs the internal set after writing its
\* live variable, whether or not the write callback has run it already
_set_AlwaysInner(a, s, value) ==
    IF a.pv.bound
    THEN LET r1 == PvSet(a, s, value)
             r2 == _inner_set(r1.a, r1.s, value)
         IN  R(r2.a, r2.s, NoneVal, "ok", r1.nset + r2.nset)
    ELSE _inner_set(a, s, value)

_set(a, s, value) ==
    IF a.pv.bound
    THEN LET r1 == PvSet(a, s, value)
         IN  IF ~is_writeable(r1.a)
             THEN LET r2 == _inner_set(r1.a, r1.s, value)
                  IN  R(r2.a, r2.s, NoneVal, "ok", r1.nset + r2.nset)
             ELSE r1
    ELSE _inner_set(a, s, value)

\* the public get inherited from ParameterAccessor: calls the getter passed to
\* the superclass, which is _get
get(a, s) == _get(a, s)

\* faulty variant of set: the writeable override of __init__ is lost, the setter alone
\* makes the parameter writeable
set_NoGate(a, s, value) ==
    IF ~TypeAccepted(value, a.type) THEN R(a, s, NoneVal, "type-mismatch", 0)
    ELSE _set(a, s, value)

\* the public set inherited from ParameterAccessor: the writeable gate, the type
\* check, then the setter passed to the superclass, which is _set
set(a, s, value) ==
    IF ~a.writeable THEN R(a, s, NoneVal, "read-only", 0)
    ELSE IF ~TypeAccepted(value, a.type) THEN R(a, s, NoneVal, "type-mismatch", 0)
    ELSE _set(a, s, value)

\* faulty variant of bind: the record starts from the cached value
bind_StaleInitial(a, s, id) ==
    LET table == IF is_writeable(a) THEN out_record_types ELSE in_record_types
    IN  IF a.type \in DOMAIN table
        THEN R([a EXCEPT !.pv =
                    DummyPvRecord(id, table[a.type], a.value,
                                  IF is_writeable(a) THEN "_inner_set" ELSE "none")],
               s, NoneVal, "ok", 0)
        ELSE R(a, s, NoneVal, "unsupported-type", 0)

bind(a, s, id) ==
    LET g == _get(a, s)
        table == IF is_writeable(g.a) THEN out_record_types ELSE in_record_types
    IN  IF g.a.type \in DOMAIN table
        THEN R([g.a EXCEPT !.pv =
                    DummyPvRecord(id, table[g.a.type], g.ret,
                                  IF is_writeable(g.a) THEN "_inner_set" ELSE "none")],
               g.s, NoneVal, "ok", 0)
        ELSE R(g.a, g.s, NoneVal, "unsupported-type", 0)

\* faulty variant of PvSetNoProcess: the write is processed, so the record runs
\* its write callback
PvSetNoProcess_Processed(a, s, value) ==
    PvSet([a EXCEPT !.pv.pushed = value], s, value)

\* pv.set(value, process=False): the value is written and the write callback is
\* not run
PvSetNoProcess(a, s, value) ==
    R([a EXCEPT !.pv.value = value, !.pv.pushed = value], s, NoneVal, "ok", 0)

\* the outcome of update: an accessor method's outcome and whether the push
\* branch (the "Updating PV of param" line) was taken
UR(r, pushed) ==
    [a |-> r.a, s |-> r.s, ret |-> r.ret, err |-> r.err, nset |-> r.nset,
     pushed |-> pushed]

\* faulty variant of update: the value read is pushed and not remembered
update_NoCache(a, s) ==
    IF is_external(a)
    THEN LET value == OnGet(a, s)
             s1 == OnGetSource(a, s)
             push == value /= a.value /\ a.pv.bound
             r1 == IF push THEN PvSetNoProcess(a, s1, value) ELSE R(a, s1, NoneVal, "ok", 0)
         IN  UR(r1, push)
    ELSE UR(R(a, s, NoneVal, "ok", 0), FALSE)

update(a, s) ==
    IF is_external(a)
    THEN LET value == OnGet(a, s)
             s1 == OnGetSource(a, s)
             push == value /= a.value /\ a.pv.bound
             r1 == IF push THEN PvSetNoProcess(a, s1, value) ELSE R(a, s1, NoneVal, "ok", 0)
         IN  UR(R([r1.a EXCEPT !.value = value], r1.s, NoneVal, "ok", r1.nset), push)
    ELSE UR(R(a, s, NoneVal, "ok", 0), FALSE)

----------------------------------------------------------------------------
(* The ioloop before the controller is initialised *)

\* started: init_ioc has handed update_pvs to the dispatcher; pc: where the
\* update_pvs coroutine stands; running: the callback or coroutine the ioloop
\* is executing; inflight: update_external_params calls entered and not yet
\* returned
LoopIdle == [started |-> FALSE, pc |-> "none", running |-> "none", inflight |-> 0]

----------------------------------------------------------------------------
(* The accessor state machine: one accessor "p" of every configuration *)

Names == {<<"p">>}

OnGetModes == {"none", "var"}
OnSetModes == {"none", "noop", "store"}

\* the values the operations are called with on accessor n
Offered(n) == ValuesOf(acc[n].type) \cup ForeignOf(acc[n].type)

\* the record of an operation on accessor n: the call, what came back, and the
\* cached value and PV handle the accessor held when it was called
Op(op, n, arg, r) ==
    [op |-> op, name |-> n, arg |-> arg, ret |-> r.ret, err |-> r.err, nset |-> r.nset,
     old |-> acc[n].value, oldpv |-> acc[n].pv, olds |-> source[n], log |-> <<>>]

\* log is the sequence of accessors the operation printed "Updating PV of
\* param" for
NoOp == [op |-> "init", name |-> <<>>, arg |-> NoneVal, ret |-> NoneVal, err |-> "ok",
         nset |-> 0, old |-> NoneVal, oldpv |-> NoPv, olds |-> NoneVal, log |-> <<>>]

Init ==
    /\ \E w \in BOOLEAN, g \in OnGetModes, st \in OnSetModes, t \in DeclTypes :
         \E iv \in ValuesOf(t) \cup (IF g = "none" THEN {} ELSE {NoneVal}),
            sv \in ValuesOf(t) :
            /\ acc = [n \in Names |-> NewAccessor(w, g, st, t, iv)]
            /\ source = [n \in Names |-> sv]
    /\ nrec = 0
    /\ last = NoOp
    /\ tree = <<>>
    /\ bt = <<>>
    /\ counter = 0
    /\ loop = LoopIdle

Apply(op, n, arg, r) ==
    /\ acc' = [acc EXCEPT ![n] = r.a]
    /\ source' = [source EXCEPT ![n] = r.s]
    /\ last' = Op(op, n, arg, r)
    /\ UNCHANGED <<tree, bt, counter, loop>>

\* accessor.get()
DoGet(n) ==
    /\ Apply("get", n, NoneVal, get(acc[n], source[n]))
    /\ UNCHANGED nrec

\* accessor.set(v)
DoSet(n, v) ==
    /\ Apply("set", n, v, set(acc[n], source[n], v))
    /\ UNCHANGED nrec

\* accessor._set(v)
DoInternalSet(n, v) ==
    /\ Apply("_set", n, v, _set(acc[n], source[n], v))
    /\ UNCHANGED nrec

\* accessor.bind(builder)
DoBind(n) ==
    /\ nrec < MaxRecords
    /\ LET r == bind(acc[n], source[n], nrec + 1)
       IN  /\ Apply("bind", n, NoneVal, r)
           /\ nrec' = IF r.err = "ok" THEN nrec + 1 ELSE nrec

\* accessor.update()
DoUpdate(n) ==
    LET r == update(acc[n], source[n])
    IN  /\ acc' = [acc EXCEPT ![n] = r.a]
        /\ source' = [source EXCEPT ![n] = r.s]
        /\ last' = [Op("update", n, NoneVal, r) EXCEPT
                        !.log = IF r.pushed THEN <<n>> ELSE <<>>]
        /\ UNCHANGED <<nrec, tree, bt, counter, loop>>

\* a client writes the live variable: the record stores the value and runs the
\* write callback
DoExternalWrite(n, v) ==
    /\ acc[n].pv.bound /\ acc[n].pv.on_update /= "none"
    /\ Apply("pv.set", n, v, PvSet(acc[n], source[n], v))
    /\ UNCHANGED nrec

\* the application state behind on_get changes
DoSourceChange(n, v) ==
    /\ is_external(acc[n])
    /\ source[n] /= v
    /\ source' = [source EXCEPT ![n] = v]
    /\ last' = [NoOp EXCEPT !.op = "source", !.name = n, !.arg = v]
    /\ UNCHANGED <<acc, nrec, tree, bt, counter, loop>>

Next ==
    \E n \in Names :
        \/ DoGet(n)
        \/ \E v \in Offered(n) : DoSet(n, v)
        \/ \E v \in Offered(n) : DoInternalSet(n, v)
        \/ DoBind(n)
        \/ DoUpdate(n)
        \/ \E v \in ValuesOf(acc[n].type) : DoExternalWrite(n, v)
        \/ \E v \in ValuesOf(acc[n].type) : DoSourceChange(n, v)

Spec == Init /\ [][Next]_vars

----------------------------------------------------------------------------
(* The parameter tree *)

\* the application counter is read at most up to MaxCounter
MaxCounter == 3

\* the dict passed to PvParameterTree: the kind of node at each path
NodeKind(path) ==
    CASE path = <<>>                             -> "dict"
      [] path = <<"task_count">>                 -> "PvParameterAccessor"
      [] path = <<"counter">>                    -> "ParameterAccessor"
      [] path = <<"random_value">>               -> "value"
      [] path = <<"sub_tree">>                   -> "dict"
      [] path = <<"sub_tree", "interesting_pv">> -> "PvParameterAccessor"
      [] path = <<"sub_tree", "deeper">>         -> "dict"
      [] path = <<"sub_tree", "deeper", "one">>  -> "value"
      [] path = <<"sub_tree", "deeper", "two">>  -> "value"
      [] OTHER                                   -> "missing"

\* node.items(): the keys of a dict node in declaration order
Items(path) ==
    CASE path = <<>>                     ->
           <<"task_count", "counter", "random_value", "sub_tree">>
      [] path = <<"sub_tree">>           -> <<"interesting_pv", "deeper">>
      [] path = <<"sub_tree", "deeper">> -> <<"one", "two">>
      [] OTHER                           -> <<>>

TreePaths ==
    {<<>>, <<"task_count">>, <<"counter">>, <<"random_value">>, <<"sub_tree">>,
     <<"sub_tree", "interesting_pv">>, <<"sub_tree", "deeper">>,
     <<"sub_tree", "deeper", "one">>, <<"sub_tree", "deeper", "two">>}

Leaves == {p \in TreePaths : NodeKind(p) /= "dict"}

AccPaths == {p \in TreePaths : NodeKind(p) = "PvParameterAccessor"}

ValuePaths == {p \in TreePaths : NodeKind(p) = "value"}

\* the nested dicts below the root
SubtreePaths == {p \in TreePaths : NodeKind(p) = "dict" /\ p /= <<>>}

Front(path) == SubSeq(path, 1, Len(path) - 1)

Last(path) == path[Len(path)]

\* the plain values of the dict: "random_value": 1.234, "one": 1, "two": 2.0
InitialValue(path) ==
    CASE Last(path) = "random_value" -> PyVal("float", 1)
      [] Last(path) = "two"          -> PyVal("float", 2)
      [] OTHER                       -> PyVal("int", 1)

\* everything the tree operations read and write
World(a, s, k, t, b, c) ==
    [acc |-> a, source |-> s, nrec |-> k, tree |-> t, bt |-> b, counter |-> c]

Cur == World(acc, source, nrec, tree, bt, counter)

\* the outcome of a tree operation
TR(w, ret, err) == [w |-> w, ret |-> ret, err |-> err]

\* an accessor method called on the accessor at path key
OnAccessor(w, key, r) ==
    TR([w EXCEPT !.acc[key] = r.a, !.source[key] = r.s], r.ret, r.err)

----------------------------------------------------------------------------
(* ParameterAccessor built from a (getter, None) pair *)

\* get_counter: increments the counter and returns it
PairGet(w, key) ==
    TR([w EXCEPT !.counter = @ + 1], PyVal("int", w.counter + 1), "ok")

\* the inherited set of an accessor without setter: read-only
PairSet(w, key, value) == TR(w, NoneVal, "read-only")

----------------------------------------------------------------------------
(* PvBoundTree *)

\* an attribute of a PvBoundTree instance: a subtree or a plain value
SubtreeEntry(ref) == [kind |-> "tree", ref |-> ref, v |-> NoneVal]
ValueEntry(v) == [kind |-> "value", ref |-> <<>>, v |-> v]

\* PvBoundTree.__init__
PvBoundTree(name) ==
    [name |-> name, bound_params |-> <<>>, external_params |-> <<>>,
     subtrees |-> <<>>, dict |-> <<>>]

add_subtree(t, name, subtree) ==
    [t EXCEPT !.dict = (name :> SubtreeEntry(subtree)) @@ @,
              !.subtrees = Append(@, name)]

\* a parameter object: its class and the path it is declared at
Param(path) == [cls |-> NodeKind(path), key |-> path]

\* PvBoundTree.bind
TreeBind(w, t, name, param) ==
    LET t1 == [t EXCEPT !.bound_params = (name :> param) @@ @]
        t2 == IF param.cls = "PvParameterAccessor" /\ is_external(w.acc[param.key])
              THEN [t1 EXCEPT !.external_params = Append(@, name)] ELSE t1
    IN  IF param.cls = "ParameterAccessor"
        THEN [t2 EXCEPT !.external_params = Append(@, name)] ELSE t2

\* bound_params[name].get()
ParamGet(w, param) ==
    IF param.cls = "PvParameterAccessor"
    THEN OnAccessor(w, param.key, get(w.acc[param.key], w.source[param.key]))
    ELSE PairGet(w, param.key)

\* faulty variant of __setattr__: every bound parameter is written through its public set
__setattr___PublicSet(w, node, name, value) ==
    LET t == w.bt[node]
    IN  IF name \in DOMAIN t.bound_params
        THEN LET param == t.bound_params[name]
             IN  IF param.cls = "PvParameterAccessor"
                 THEN OnAccessor(w, param.key,
                                 set(w.acc[param.key], w.source[param.key], value))
                 ELSE PairSet(w, param.key, value)
        ELSE TR([w EXCEPT !.bt[node].dict = (name :> ValueEntry(value)) @@ @],
                NoneVal, "ok")

\* faulty variant of __setattr__: a write to an unbound name is dropped
__setattr___Dropped(w, node, name, value) ==
    LET t == w.bt[node]
    IN  IF name \in DOMAIN t.bound_params
        THEN LET param == t.bound_params[name]
             IN  IF param.cls = "PvParameterAccessor"
                 THEN OnAccessor(w, param.key,
                                 _set(w.acc[param.key], w.source[param.key], value))
                 ELSE PairSet(w, param.key, value)
        ELSE TR(w, NoneVal, "ok")

__setattr__(w, node, name, value) ==
    LET t == w.bt[node]
    IN  IF name \in DOMAIN t.bound_params
        THEN LET param == t.bound_params[name]
             IN  IF param.cls = "PvParameterAccessor"
                 THEN OnAccessor(w, param.key,
                                 _set(w.acc[param.key], w.source[param.key], value))
                 ELSE PairSet(w, param.key, value)
        ELSE TR([w EXCEPT !.bt[node].dict = (name :> ValueEntry(value)) @@ @],
                NoneVal, "ok")

\* faulty variant of __getattribute__: the bound parameter is read once to log it
\* and once more to return it
__getattribute___Twice(w, node, name) ==
    LET t == w.bt[node]
    IN  IF name \in DOMAIN t.bound_params
        THEN ParamGet(ParamGet(w, t.bound_params[name]).w, t.bound_params[name])
        ELSE IF name \in DOMAIN t.dict THEN TR(w, t.dict[name].v, "ok")
        ELSE TR(w, NoneVal, "AttributeError")

__getattribute__(w, node, name) ==
    LET t == w.bt[node]
    IN  IF name \in DOMAIN t.bound_params THEN ParamGet(w, t.bound_params[name])
        ELSE IF name \in DOMAIN t.dict THEN TR(w, t.dict[name].v, "ok")
        ELSE TR(w, NoneVal, "AttributeError")

\* the node a chain of attribute reads from the root arrives at
RECURSIVE Walk(_, _, _)
Walk(w, node, names) ==
    IF names = <<>> THEN [ok |-> TRUE, node |-> node]
    ELSE LET t == w.bt[node]
             nm == Head(names)
         IN  IF /\ nm \notin DOMAIN t.bound_params
                /\ nm \in DOMAIN t.dict
                /\ t.dict[nm].kind = "tree"
             THEN Walk(w, t.dict[nm].ref, Tail(names))
             ELSE [ok |-> FALSE, node |-> node]

\* tree.a.b.name
AttrGet(w, path) ==
    LET at == Walk(w, <<>>, Front(path))
    IN  IF at.ok THEN __getattribute__(w, at.node, Last(path))
        ELSE TR(w, NoneVal, "AttributeError")

\* tree.a.b.name = value
AttrSet(w, path, value) ==
    LET at == Walk(w, <<>>, Front(path))
    IN  IF at.ok THEN __setattr__(w, at.node, Last(path), value)
        ELSE TR(w, NoneVal, "AttributeError")

----------------------------------------------------------------------------
(* PvParameterTree *)

\* self._has_external_params |= bool(tree.external_params)
NoteExternal(w, t) ==
    IF Len(w.bt[t].external_params) > 0
    THEN [w EXCEPT !.bt[<<>>].dict =
                       ("_has_external_params" :> ValueEntry(PyVal("bool", 1))) @@ @]
    ELSE w

RECURSIVE _bind_tree(_, _, _, _), BindItems(_, _, _, _, _)

_bind_tree(w, path, owner, builder) ==
    LET kind == NodeKind(path)
    IN  CASE kind = "PvParameterAccessor" ->
               LET r == bind(w.acc[path], w.source[path], w.nrec + 1)
                   w1 == IF builder
                         THEN [w EXCEPT !.acc[path] = r.a, !.source[path] = r.s,
                                        !.nrec = @ + 1]
                         ELSE w
               IN  NoteExternal([w1 EXCEPT !.bt[owner] =
                                     TreeBind(w1, @, Last(path), Param(path))], owner)
          [] kind = "ParameterAccessor" ->
               NoteExternal([w EXCEPT !.bt[owner] =
                                 TreeBind(w, @, Last(path), Param(path))], owner)
          [] kind = "dict" ->
               LET w1 == IF Len(path) > 0
                         THEN [w EXCEPT !.bt =
                                   (path :> PvBoundTree(path))
                                   @@ [@ EXCEPT ![owner] = add_subtree(@, Last(path), path)]]
                         ELSE w
                   t == IF Len(path) > 0 THEN path ELSE owner
               IN  NoteExternal(BindItems(w1, path, t, builder, 1), t)
          [] OTHER ->
               NoteExternal(__setattr__(w, owner, Last(path), w.tree[path]).w, owner)

\* for k, v in node.items(): self._bind_tree(v, tree, path + [k])
BindItems(w, path, t, builder, i) ==
    IF i > Len(Items(path)) THEN w
    ELSE BindItems(_bind_tree(w, Append(path, Items(path)[i]), t, builder),
                   path, t, builder, i + 1)

\* PvParameterTree.__init__ over the accessors and the application state given
PvParameterTree(a, s, c, builder) ==
    LET root == [PvBoundTree(<<>>) EXCEPT !.dict =
                     ("_has_external_params" :> ValueEntry(PyVal("bool", 0))) @@ @]
        w0 == World(a, s, 0, [p \in ValuePaths |-> InitialValue(p)],
                    (<<>> :> root), c)
    IN  _bind_tree(w0, <<>>, <<>>, builder)

\* ParameterTree.get(path) of a leaf: the value under the leaf's name
PathGet(w, path) ==
    CASE NodeKind(path) = "PvParameterAccessor" ->
           OnAccessor(w, path, get(w.acc[path], w.source[path]))
      [] NodeKind(path) = "ParameterAccessor" -> PairGet(w, path)
      [] NodeKind(path) = "value" -> TR(w, w.tree[path], "ok")
      [] OTHER -> TR(w, NoneVal, "invalid-path")

\* ParameterTree.set(path, value) of a leaf: an accessor is set through its
\* public set, a plain value is replaced by a value of the same type
PathSet(w, path, value) ==
    CASE NodeKind(path) = "PvParameterAccessor" ->
           OnAccessor(w, path, set(w.acc[path], w.source[path], value))
      [] NodeKind(path) = "ParameterAccessor" -> PairSet(w, path, value)
      [] NodeKind(path) = "value" ->
           IF w.tree[path].ty /= value.ty THEN TR(w, NoneVal, "type-mismatch")
           ELSE TR([w EXCEPT !.tree[path] = value], NoneVal, "ok")
      [] OTHER -> TR(w, NoneVal, "invalid-path")

\* the outcome of a reconciliation pass so far: the world, the exception that
\* ended it ("ok" when none) and the accessors it printed "Updating PV of
\* param" for, in order
PR(w, err, log) == [w |-> w, err |-> err, log |-> log]

InSeq(x, seq) == \E i \in 1..Len(seq) : seq[i] = x

\* faulty variant of TreeUpdate: every name of external_params is refreshed, a
\* getter pair by calling its get
TreeUpdate_AllExternal(p, node, name) ==
    LET t == p.w.bt[node]
    IN  IF ~InSeq(name, t.external_params) THEN p
        ELSE IF t.bound_params[name].cls = "PvParameterAccessor"
        THEN LET key == t.bound_params[name].key
                 r == update(p.w.acc[key], p.w.source[key])
             IN  PR([p.w EXCEPT !.acc[key] = r.a, !.source[key] = r.s], p.err,
                    IF r.pushed THEN Append(p.log, key) ELSE p.log)
        ELSE PR(ParamGet(p.w, t.bound_params[name]).w, p.err, p.log)

\* PvBoundTree.update
TreeUpdate(p, node, name) ==
    LET t == p.w.bt[node]
    IN  IF InSeq(name, t.external_params)
           /\ t.bound_params[name].cls = "PvParameterAccessor"
        THEN LET key == t.bound_params[name].key
                 r == update(p.w.acc[key], p.w.source[key])
             IN  PR([p.w EXCEPT !.acc[key] = r.a, !.source[key] = r.s], p.err,
                    IF r.pushed THEN Append(p.log, key) ELSE p.log)
        ELSE p

RECURSIVE update_external_params(_, _), UpdateParams(_, _, _), UpdateSubtrees(_, _, _)

\* for external_param in tree.external_params: tree.update(external_param)
UpdateParams(p, node, i) ==
    LET names == p.w.bt[node].external_params
    IN  IF i > Len(names) THEN p
        ELSE UpdateParams(TreeUpdate(p, node, names[i]), node, i + 1)

\* for subtree_name in tree.subtrees:
\*     self.update_external_params(getattr(tree, subtree_name))
\* What getattr returns is a PvBoundTree only while the attribute still holds
\* the subtree; any other truthy object has no name attribute, and a falsy one
\* restarts the pass at the root (if not tree: tree = self) without end.
UpdateSubtrees(p, node, i) ==
    LET names == p.w.bt[node].subtrees
    IN  IF p.err /= "ok" \/ i > Len(names) THEN p
        ELSE LET nm == names[i]
                 t == p.w.bt[node]
                 g == __getattribute__(p.w, node, nm)
             IN  IF nm \notin DOMAIN t.bound_params /\ t.dict[nm].kind = "tree"
                 THEN UpdateSubtrees(update_external_params(p, t.dict[nm].ref),
                                     node, i + 1)
                 ELSE IF Truthy(g.ret) THEN PR(g.w, "AttributeError", p.log)
                 ELSE PR(g.w, "RecursionError", p.log)

update_external_params(p, node) == UpdateSubtrees(UpdateParams(p, node, 1), node, 1)

\* self.param_tree.update_external_params(): one pass from the root
Reconcile(w) == update_external_params(PR(w, "ok", <<>>), <<>>)

----------------------------------------------------------------------------
(* The tree state machine *)

\* the values the tree operations are called with on the leaf at path
TreeOffered(path) ==
    CASE path = <<"task_count">> -> {PyVal("int", 1), PyVal("str", 0)}
      [] NodeKind(path) = "PvParameterAccessor" -> {PyVal(acc[path].type, 1)}
      [] NodeKind(path) = "ParameterAccessor" -> {PyVal("int", 1)}
      [] path = <<"sub_tree", "deeper", "one">> -> {PyVal("int", 2)}
      [] OTHER -> {}

\* the record of a tree operation on the leaf at path: the call, what came back,
\* and the cached value an accessor at that path held when it was called
TreeOp(op, path, arg, r) ==
    [NoOp EXCEPT !.op = op, !.name = path, !.arg = arg, !.ret = r.ret, !.err = r.err,
                 !.old = IF path \in DOMAIN acc THEN acc[path].value ELSE NoneVal]

\* the on_get of interesting_pv: none, one that returns the application state,
\* one that also increments it
TreeOnGetModes == OnGetModes \cup {"count"}

\* the tree built from the dict, for the builders, on_get modes, counter values
\* and application states given
TreeInitOver(builders, modes, counters, states) ==
    /\ \E builder \in builders, g2 \in modes, c \in counters :
         \E sv \in states :
            LET a == (<<"task_count">> :>
                          NewAccessor(TRUE, "none", "noop", "int", PyVal("int", 0)))
                     @@ (<<"sub_tree", "interesting_pv">> :>
                          NewAccessor(FALSE, g2, "none", "float", PyVal("float", 0)))
                s == (<<"task_count">> :> PyVal("int", 0))
                     @@ (<<"sub_tree", "interesting_pv">> :> sv)
                w == PvParameterTree(a, s, c, builder)
            IN  /\ acc = w.acc
                /\ source = w.source
                /\ nrec = w.nrec
                /\ tree = w.tree
                /\ bt = w.bt
                /\ counter = w.counter
    /\ last = NoOp
    /\ loop = LoopIdle

TreeInit == TreeInitOver(BOOLEAN, TreeOnGetModes, {1}, ValuesOf("float"))

TreeApplyLog(op, path, arg, r, log) ==
    /\ r.w.counter <= MaxCounter
    /\ \A n \in DOMAIN r.w.source : r.w.source[n].n <= MaxCounter
    /\ acc' = r.w.acc
    /\ source' = r.w.source
    /\ nrec' = r.w.nrec
    /\ tree' = r.w.tree
    /\ bt' = r.w.bt
    /\ counter' = r.w.counter
    /\ last' = [TreeOp(op, path, arg, r) EXCEPT !.log = log]

TreeApply(op, path, arg, r) ==
    /\ TreeApplyLog(op, path, arg, r, <<>>)
    /\ UNCHANGED loop

\* tree.get(path)
DoPathGet(path) == TreeApply("path_get", path, NoneVal, PathGet(Cur, path))

\* tree.set(path, value)
DoPathSet(path, v) == TreeApply("path_set", path, v, PathSet(Cur, path, v))

\* tree.a.b.name
DoAttrGet(path) == TreeApply("attr_get", path, NoneVal, AttrGet(Cur, path))

\* tree.a.b.name = value
DoAttrSet(path, v) == TreeApply("attr_set", path, v, AttrSet(Cur, path, v))

\* a client writes the live variable of the accessor at path n
DoTreeExternalWrite(n, v) ==
    /\ acc[n].pv.bound /\ acc[n].pv.on_update /= "none"
    /\ TreeApply("pv.set", n, v, OnAccessor(Cur, n, PvSet(acc[n], source[n], v)))

\* the application state behind the on_get of the accessor at path n changes
\* (the state of a counting on_get changes only when it is read)
DoTreeSourceChange(n, v) ==
    /\ acc[n].on_get = "var"
    /\ source[n] /= v
    /\ TreeApply("source", n, v, TR([Cur EXCEPT !.source[n] = v], NoneVal, "ok"))

\* one pass of the update_pvs loop: param_tree.update_external_params()
DoUpdateExternalParams ==
    LET r == Reconcile(Cur)
    IN  /\ TreeApplyLog("update_external_params", <<>>, NoneVal,
                         TR(r.w, NoneVal, r.err), r.log)
        /\ UNCHANGED loop

TreeNext ==
    \/ \E p \in Leaves : DoPathGet(p)
    \/ \E p \in Leaves : \E v \in TreeOffered(p) : DoPathSet(p, v)
    \/ \E p \in Leaves : DoAttrGet(p)
    \/ \E p \in Leaves : \E v \in TreeOffered(p) : DoAttrSet(p, v)
    \/ \E n \in DOMAIN acc : \E v \in ValuesOf(acc[n].type) : DoTreeExternalWrite(n, v)
    \/ \E n \in DOMAIN acc : \E v \in ValuesOf(acc[n].type) : DoTreeSourceChange(n, v)
    \/ DoUpdateExternalParams

TreeSpec == TreeInit /\ [][TreeNext]_vars

----------------------------------------------------------------------------
(* The tree state machine with attribute writes to the names of subtrees *)

ShapeInit == TreeInitOver({TRUE}, {"var"}, {1}, {PyVal("float", 0)})

\* tree.sub_tree = 2, tree.sub_tree.deeper = 2
ShapeNext ==
    \/ TreeNext
    \/ \E p \in SubtreePaths : DoAttrSet(p, PyVal("int", 2))

ShapeSpec == ShapeInit /\ [][ShapeNext]_vars

----------------------------------------------------------------------------
(* A PvBoundTree bound by hand, as the fixture of test_pv_bound_tree.py does *)

\* external_params of one node holds at most MaxBinds names
MaxBinds == 3

\* the names bind is called with
BindNames == {"ext_pv_param", "ext_pa_param"}

\* the parameter objects bind is called with: a PvParameterAccessor with
\* on_get, a getter pair, a PvParameterAccessor without on_get
BindParams ==
    {Param(<<"sub_tree", "interesting_pv">>), Param(<<"counter">>),
     Param(<<"task_count">>)}

\* tree = PvBoundTree(name='/') and the accessors of the fixture
BoundTreeInit ==
    /\ \E sv \in ValuesOf("int") :
         /\ acc = (<<"task_count">> :>
                      NewAccessor(TRUE, "none", "noop", "int", PyVal("int", 0)))
                  @@ (<<"sub_tree", "interesting_pv">> :>
                      NewAccessor(FALSE, "var", "none", "int", NoneVal))
         /\ source = (<<"task_count">> :> PyVal("int", 0))
                     @@ (<<"sub_tree", "interesting_pv">> :> sv)
    /\ nrec = 0
    /\ tree = <<>>
    /\ bt = (<<>> :> PvBoundTree(<<>>))
    /\ counter = 1
    /\ last = NoOp
    /\ loop = LoopIdle

\* tree.bind(name, param)
DoTreeBind(name, param) ==
    /\ Len(bt[<<>>].external_params) < MaxBinds
    /\ bt' = [bt EXCEPT ![<<>>] = TreeBind(Cur, @, name, param)]
    /\ last' = [NoOp EXCEPT !.op = "tree.bind", !.name = param.key]
    /\ UNCHANGED <<acc, source, nrec, tree, counter, loop>>

\* tree.name
DoBoundGet(name) ==
    /\ name \in DOMAIN bt[<<>>].bound_params
    /\ TreeApply("attr_get", <<name>>, NoneVal, __getattribute__(Cur, <<>>, name))

BoundTreeNext ==
    \/ \E name \in BindNames : \E param \in BindParams : DoTreeBind(name, param)
    \/ \E name \in BindNames : DoBoundGet(name)

BoundTreeSpec == BoundTreeInit /\ [][BoundTreeNext]_vars

----------------------------------------------------------------------------
(* The controller's ioloop: update_pvs, request handlers, the background task *)

\* the ioloop runs a callback or resumes a coroutine only when nothing else is
\* running on it
LoopFree_Preempt(l) == TRUE

LoopFree(l) == l.running = "none"

\* the parameter tree the loop works on: the fixture's tree, built with a
\* builder, its external accessor with either kind of on_get
LoopInit == TreeInitOver({TRUE}, {"var", "count"}, {1}, {PyVal("float", 0)})

\* init_ioc: the dispatcher is given update_pvs
DoInitIoc ==
    /\ LoopFree(loop) /\ ~loop.started
    /\ loop' = [loop EXCEPT !.started = TRUE, !.pc = "ready"]
    /\ UNCHANGED <<acc, source, nrec, last, tree, bt, counter>>

\* update_pvs enters param_tree.update_external_params()
DoPassBegin ==
    /\ LoopFree(loop) /\ loop.pc = "ready"
    /\ loop' = [loop EXCEPT !.running = "update_pvs", !.pc = "pass", !.inflight = @ + 1]
    /\ last' = [NoOp EXCEPT !.op = "pass_begin"]
    /\ UNCHANGED <<acc, source, nrec, tree, bt, counter>>

\* the pass runs and returns; an exception ends the coroutine
DoPassRun ==
    /\ loop.running = "update_pvs" /\ loop.pc = "pass"
    /\ LET r == Reconcile(Cur)
       IN  /\ TreeApplyLog("update_external_params", <<>>, NoneVal,
                            TR(r.w, NoneVal, r.err), r.log)
           /\ loop' = IF r.err = "ok"
                      THEN [loop EXCEPT !.pc = "await", !.inflight = @ - 1]
                      ELSE [loop EXCEPT !.pc = "dead", !.inflight = @ - 1,
                                        !.running = "none"]

\* await asyncio.sleep(1.0): update_pvs gives the ioloop back
DoAwaitSleep ==
    /\ loop.running = "update_pvs" /\ loop.pc = "await"
    /\ loop' = [loop EXCEPT !.running = "none", !.pc = "sleep"]
    /\ UNCHANGED <<acc, source, nrec, last, tree, bt, counter>>

\* the sleep is over: update_pvs is ready for its next iteration
DoWake ==
    /\ loop.pc = "sleep"
    /\ loop' = [loop EXCEPT !.pc = "ready"]
    /\ UNCHANGED <<acc, source, nrec, last, tree, bt, counter>>

\* SoftIocController.get(path)
DoRequestGet(path) == LoopFree(loop) /\ DoPathGet(path)

\* SoftIocController.set(path, data)
DoRequestSet(path, v) == LoopFree(loop) /\ DoPathSet(path, v)

\* background_task_callback: self.param_tree.task_count += 1
DoBackgroundTask ==
    /\ LoopFree(loop)
    /\ LET g == AttrGet(Cur, <<"task_count">>)
       IN  /\ g.err = "ok" /\ g.ret.ty = "int" /\ g.ret.n < MaxCounter
           /\ TreeApply("background_task", <<"task_count">>, g.ret,
                         AttrSet(g.w, <<"task_count">>, PyVal("int", g.ret.n + 1)))

\* application code run from the ioloop changes the state behind an on_get
DoAppChange(n, v) == LoopFree(loop) /\ DoTreeSourceChange(n, v)

LoopNext ==
    \/ DoInitIoc
    \/ DoPassBegin
    \/ DoPassRun
    \/ DoAwaitSleep
    \/ DoWake
    \/ \E p \in Leaves : DoRequestGet(p)
    \/ \E p \in Leaves : \E v \in TreeOffered(p) : DoRequestSet(p, v)
    \/ DoBackgroundTask
    \/ \E n \in DOMAIN acc : \E v \in ValuesOf(acc[n].type) : DoAppChange(n, v)

LoopSpec == LoopInit /\ [][LoopNext]_vars

----------------------------------------------------------------------------
(* Claims about the accessor *)

\* C1: the public set of an accessor created with writeable=False fails with
\* the read-only ParameterTreeError for every value, in every reachable state,
\* and leaves the cached value, the application state and the live variable
\* as they were.
C1_ReadOnlySetFails ==
    \A n \in DOMAIN acc :
        ~acc[n].writeable =>
            /\ \A v \in Offered(n) :
                 LET r == set(acc[n], source[n], v)
                 IN  r.err = "read-only" /\ r.a = acc[n] /\ r.s = source[n]
            /\ (last.op = "set" /\ last.name = n) =>
                 /\ last.err = "read-only"
                 /\ acc[n].value = last.old
                 /\ acc[n].pv = last.oldpv
                 /\ source[n] = last.olds

C1_Witness ==
    \E n \in DOMAIN acc :
        /\ last.op = "set" /\ last.name = n /\ last.err = "read-only"
        /\ ~acc[n].writeable /\ acc[n].pv.bound
        /\ last.arg /= acc[n].value

\* C2 as stated: after a successful set(v) on a writeable accessor, get()
\* returns v, for internal and external accessors alike (no on_set of the model
\* transforms the value it is given).
C2_SetThenGet ==
    \A n \in DOMAIN acc :
        (last.op = "set" /\ last.name = n /\ last.err = "ok" /\ acc[n].writeable)
            => get(acc[n], source[n]).ret = last.arg

\* C2 amended: after a successful set(v) on a writeable accessor, get() returns
\* v when the accessor is internally stored or its on_set stores v into the
\* state on_get reads; an externally sourced accessor returns what its source
\* holds after on_set ran.
C2_SetThenGetAmended ==
    \A n \in DOMAIN acc :
        (last.op = "set" /\ last.name = n /\ last.err = "ok" /\ acc[n].writeable)
            => LET g == get(acc[n], source[n]).ret
               IN  /\ (~is_external(acc[n]) \/ acc[n].on_set = "store") => g = last.arg
                   /\ is_external(acc[n]) => g = source[n]
                   /\ (is_external(acc[n]) /\ acc[n].on_set /= "store")
                        => source[n] = last.olds

C2_Witness ==
    \E n \in DOMAIN acc :
        /\ last.op = "set" /\ last.name = n /\ last.err = "ok"
        /\ acc[n].writeable /\ acc[n].pv.bound
        /\ last.arg /= last.old
        /\ get(acc[n], source[n]).ret = last.arg

\* C3: get() of an accessor with on_get returns what the source holds at the
\* call, in every reachable state: a cached value never shadows the source.
C3_ReadThrough ==
    \A n \in DOMAIN acc :
        is_external(acc[n]) =>
            /\ get(acc[n], source[n]).ret = source[n]
            /\ (last.op = "get" /\ last.name = n) => last.ret = source[n]

C3_Witness ==
    \E n \in DOMAIN acc :
        /\ last.op = "get" /\ last.name = n /\ is_external(acc[n])
        /\ last.old /= last.ret
        /\ acc[n].pv.bound

\* C7: after the internal set _set(v) on a bound accessor of any of the four
\* kinds, the live variable's get() returns v.
C7_InternalSetMirrored ==
    \A n \in DOMAIN acc :
        (last.op = "_set" /\ last.name = n /\ acc[n].pv.bound)
            => PvGet(acc[n].pv) = last.arg

C7_Witness ==
    \E n \in DOMAIN acc :
        /\ last.op = "_set" /\ last.name = n /\ acc[n].pv.bound
        /\ ~acc[n].writeable /\ is_external(acc[n])
        /\ last.oldpv.value /= last.arg
        /\ PvGet(acc[n].pv) = last.arg

C9_RecordKind ==
    \A n \in DOMAIN acc :
        (last.op = "bind" /\ last.name = n) =>
            LET a == acc[n]
                t == a.type
                kind == CASE t = "int" /\ a.writeable    -> "longOut"
                          [] t = "float" /\ a.writeable  -> "aOut"
                          [] t = "bool" /\ a.writeable   -> "boolOut"
                          [] t = "str" /\ a.writeable    -> "longStringOut"
                          [] t = "int" /\ ~a.writeable   -> "longIn"
                          [] t = "float" /\ ~a.writeable -> "aIn"
                          [] t = "bool" /\ ~a.writeable  -> "boolIn"
                          [] t = "str" /\ ~a.writeable   -> "longStringIn"
                          [] OTHER                       -> "none"
            IN  IF t \in {"int", "float", "bool", "str"}
                THEN /\ last.err = "ok"
                     /\ a.pv.bound
                     /\ a.pv.kind = kind
                     /\ a.pv.on_update = IF a.writeable THEN "_inner_set" ELSE "none"
                ELSE /\ last.err = "unsupported-type"
                     /\ ~a.pv.bound

C9_Witness ==
    \E n \in DOMAIN acc :
        /\ last.op = "bind" /\ last.name = n /\ last.err = "ok"
        /\ acc[n].type = "float" /\ ~acc[n].writeable
        /\ acc[n].pv.kind = "aIn"

\* C10 as stated: bind on an accessor that already has a live variable fails
\* and the accessor keeps the handle it had.
C10_BindTwiceFails ==
    \A n \in DOMAIN acc :
        (last.op = "bind" /\ last.name = n /\ last.oldpv.bound)
            => last.err /= "ok" /\ acc[n].pv = last.oldpv

----------------------------------------------------------------------------
(* Claims about the tree *)

\* C4 as stated: in every reachable state, for every leaf (accessor, getter
\* pair, plain value), the path API and the chained attribute read return the
\* same value; in particular a plain value written through the attribute path
\* is what the path API returns.
C4_PathAttrEquivalence ==
    \A p \in Leaves :
        /\ PathGet(Cur, p).ret = AttrGet(Cur, p).ret
        /\ (last.op = "attr_set" /\ last.name = p /\ last.err = "ok"
            /\ NodeKind(p) = "value") => PathGet(Cur, p).ret = last.arg

C6_ValueOfDeclaredType ==
    \A p \in DOMAIN acc :
        /\ acc[p].type = (IF p = <<"task_count">> THEN "int" ELSE "float")
        /\ TypeAccepted(acc[p].value, acc[p].type)

----------------------------------------------------------------------------
(* Claims about reconciliation *)

\* C11 as stated: after a reconciliation pass has completed, the live variable
\* of every bound, externally sourced PvParameterAccessor holds the value its
\* on_get returned during the pass (the value update left in the cache),
\* whatever source changes, gets and sets came before the pass.
C11_PassLeavesLiveVariableCurrent ==
    (last.op = "update_external_params" /\ last.err = "ok") =>
        \A p \in AccPaths :
            (is_external(acc[p]) /\ acc[p].pv.bound)
                => PvGet(acc[p].pv) = acc[p].value

\* C12 as stated: a pass pushes a value into a live variable only when the
\* value differs from the one last pushed into that live variable.  A push of
\* the value last pushed is held against the statement only when the live
\* variable still holds that value, so that the push changes nothing.
C12_PushOnlyWhenDiffers ==
    LET r == Reconcile(Cur)
    IN  \A i \in 1..Len(r.log) :
            LET pv == acc[r.log[i]].pv
            IN  ~(r.w.acc[r.log[i]].value = pv.pushed /\ PvGet(pv) = pv.pushed)

C14_PushRunsNoCallback ==
    \A n \in DOMAIN acc :
        /\ LET r == update(acc[n], source[n])
           IN  r.nset = 0 /\ r.s = source[n]
        /\ (last.op = "update" /\ last.name = n)
             => last.nset = 0 /\ source[n] = last.olds

C14_Witness ==
    \E n \in DOMAIN acc :
        /\ last.op = "update" /\ last.name = n /\ last.log = <<n>>
        /\ acc[n].writeable /\ acc[n].pv.on_update = "_inner_set"
        /\ acc[n].on_set = "store"
        /\ PvGet(acc[n].pv) /= last.oldpv.value
        /\ last.nset = 0 /\ source[n] = last.olds

\* C15 as stated: an external write to the live variable of a writeable
\* accessor runs the internal-set path (the cached value becomes the written
\* value), and a write of the value the accessor already holds does not
\* invoke on_set again.
C15_WriteCallbackIdempotent ==
    \A n \in DOMAIN acc :
        (last.op = "pv.set" /\ last.name = n) =>
            /\ acc[n].value = last.arg
            /\ last.arg = last.old => last.nset = 0

----------------------------------------------------------------------------
(* Claims about the shape of the tree and attribute access *)

\* C17 as stated: after any sequence of path gets and sets, attribute reads
\* and writes, external writes and reconciliation passes, every subtree of the
\* dict is still reached as a subtree, every leaf is still reached through its
\* chain of attributes, and a reconciliation pass traverses every registered
\* subtree without an error.
C17_ShapeImmutable ==
    /\ \A p \in SubtreePaths : Walk(Cur, <<>>, p).ok
    /\ \A p \in Leaves : AttrGet(Cur, p).err /= "AttributeError"
    /\ Reconcile(Cur).err = "ok"

\* C19: an attribute read of a leaf backed by a getter calls the getter exactly
\* once: a read of the counter pair returns the counter plus one and leaves it
\* there, the read after it returns the next value, and a read of a
\* PvParameterAccessor with a counting on_get advances its state by one.
C19_ReadInvokesGetterOnce ==
    /\ LET r == AttrGet(Cur, <<"counter">>)
       IN  /\ r.err = "ok"
           /\ r.ret = PyVal("int", counter + 1)
           /\ r.w.counter = counter + 1
           /\ AttrGet(r.w, <<"counter">>).ret = PyVal("int", counter + 2)
    /\ (last.op = "attr_get" /\ last.name = <<"counter">>)
         => last.ret = PyVal("int", counter)
    /\ \A p \in AccPaths :
         acc[p].on_get = "count" =>
             LET r == AttrGet(Cur, p)
             IN  r.ret = source[p] /\ r.w.source[p].n = source[p].n + 1

C19_Witness ==
    /\ last.op = "attr_get" /\ last.name = <<"counter">>
    /\ last.ret = PyVal("int", counter)
    /\ counter = MaxCounter
    /\ \E p \in AccPaths : acc[p].on_get = "count"

\* C20: for every plain leaf of the tree, at the root or below it, an
\* attribute write of v succeeds, the attribute read that follows returns v,
\* and the attribute reads of the other plain leaves return what they returned
\* before the write.
C20_PlainLeafWriteRead ==
    /\ \A p \in ValuePaths : \A v \in {PyVal("int", 2), PyVal("str", 0)} :
         LET r == AttrSet(Cur, p, v)
         IN  /\ r.err = "ok"
             /\ AttrGet(r.w, p) = TR(r.w, v, "ok")
             /\ \A q \in ValuePaths \ {p} : AttrGet(r.w, q).ret = AttrGet(Cur, q).ret
    /\ (last.op = "attr_set" /\ last.name \in ValuePaths)
         => last.err = "ok" /\ AttrGet(Cur, last.name).ret = last.arg

C20_Witness ==
    /\ last.op = "attr_set" /\ last.name = <<"sub_tree", "deeper", "one">>
    /\ last.arg /= InitialValue(last.name)
    /\ AttrGet(Cur, last.name).ret = last.arg
    /\ AttrGet(Cur, <<"sub_tree", "deeper", "two">>).ret = PyVal("float", 2)
    /\ AttrGet(Cur, <<"random_value">>).ret = PyVal("float", 1)

----------------------------------------------------------------------------
(* Claims about the bound tree node and the controller's loop *)

\* a direct child that is externally sourced: a PvParameterAccessor with a
\* callable on_get, or a getter pair
ExternalChild(param) ==
    \/ param.cls = "ParameterAccessor"
    \/ param.cls = "PvParameterAccessor" /\ is_external(acc[param.key])

\* C16 as stated: after any sequence of bind calls, external_params of every
\* node holds exactly the names of its externally sourced direct children,
\* each of them once.
C16_ExternalParamsExact ==
    \A node \in DOMAIN bt :
        LET t == bt[node]
            ext == {nm \in DOMAIN t.bound_params : ExternalChild(t.bound_params[nm])}
        IN  /\ {t.external_params[i] : i \in 1..Len(t.external_params)} = ext
            /\ Len(t.external_params) = Cardinality(ext)

\* C18: at most one update_external_params call is in flight; while it is,
\* the ioloop is held by update_pvs and nothing else has run since the pass
\* was entered; update_pvs is ready for a new pass only when none is in flight.
C18_PassNotReentrant ==
    /\ loop.inflight <= 1
    /\ loop.inflight = 1 =>
         /\ loop.running = "update_pvs" /\ loop.pc = "pass"
         /\ last.op = "pass_begin"
    /\ loop.pc \in {"ready", "sleep", "await", "none", "dead"} => loop.inflight = 0

C18_Witness ==
    /\ loop.inflight = 1 /\ loop.pc = "pass"
    /\ \E p \in AccPaths : is_external(acc[p]) /\ acc[p].pv.pushed /= NoneVal
    /\ acc[<<"task_count">>].value /= PyVal("int", 0)

----------------------------------------------------------------------------
(* Claims about the write paths of one accessor *)

\* C22: in every reachable state, the cached value of a bound accessor without
\* on_get equals the value of its live variable, whatever public sets,
\* internal sets, external writes, binds and updates came before.
C22_CacheEqualsLiveVariable ==
    \A n \in DOMAIN acc :
        (~is_external(acc[n]) /\ acc[n].pv.bound)
            => acc[n].value = PvGet(acc[n].pv)

C22_Witness ==
    \E n \in DOMAIN acc :
        /\ ~is_external(acc[n]) /\ acc[n].pv.bound /\ ~acc[n].writeable
        /\ last.op = "_set" /\ last.name = n
        /\ last.arg /= last.old
        /\ acc[n].value = last.arg /\ PvGet(acc[n].pv) = last.arg

\* C23: a completed write to an accessor that has an on_set callback (a
\* successful public set, an internal set, an external write of its live
\* variable) invokes on_set exactly once, bound or not, writeable or not; and
\* the internal-set path leaves the live variable as it is.
C23_OnSetExactlyOnce ==
    \A n \in DOMAIN acc :
        /\ (/\ acc[n].on_set /= "none" /\ last.name = n
            /\ \/ last.op = "set" /\ last.err = "ok"
               \/ last.op \in {"_set", "pv.set"})
             => last.nset = 1
        /\ \A v \in Offered(n) : _inner_set(acc[n], source[n], v).a.pv = acc[n].pv

C23_Witness ==
    \E n \in DOMAIN acc :
        /\ last.op = "_set" /\ last.name = n /\ last.nset = 1
        /\ acc[n].pv.bound /\ acc[n].writeable /\ acc[n].on_set = "store"
        /\ last.arg /= last.olds /\ source[n] = last.arg

----------------------------------------------------------------------------
(* Claims about what a reconciliation pass visits and what it leaves alone *)

\* the externally sourced accessors of the dict in the order a pass from the
\* root meets them: a node's own before those of its subtrees
PassOrder == <<<<"task_count">>, <<"sub_tree", "interesting_pv">>>>

RankInPass(p) == CHOOSE i \in 1..Len(PassOrder) : PassOrder[i] = p

\* C24 as stated: a pass from the root terminates without error, has called
\* the on_get of every externally sourced PvParameterAccessor exactly once
\* (its cache holds what on_get returned and its source was read once), and
\* has met the accessors in the order of the tree, each at most once.
C24_PassUpdatesEachOnce ==
    LET r == Reconcile(Cur)
    IN  /\ r.err = "ok"
        /\ \A p \in AccPaths :
             is_external(acc[p]) =>
                 /\ r.w.acc[p].value = OnGet(acc[p], source[p])
                 /\ r.w.source[p] = OnGetSource(acc[p], source[p])
        /\ \A i, j \in 1..Len(r.log) :
             i < j => RankInPass(r.log[i]) < RankInPass(r.log[j])

\* C25: a pass leaves alone everything that is not an externally sourced
\* PvParameterAccessor: the counter behind the getter pair (its getter is not
\* called although "counter" is in external_params), the cached value and
\* live variable of every accessor without on_get, the plain values, the
\* bound tree nodes and the number of records.
C25_PassFrame ==
    LET r == Reconcile(Cur)
    IN  /\ r.w.counter = counter
        /\ r.w.tree = tree
        /\ r.w.bt = bt
        /\ r.w.nrec = nrec
        /\ \A p \in DOMAIN acc :
             ~is_external(acc[p]) =>
                 r.w.acc[p] = acc[p] /\ r.w.source[p] = source[p]
        /\ last.op = "update_external_params" =>
             \A i \in 1..Len(last.log) : is_external(acc[last.log[i]])

C25_Witness ==
    /\ last.op = "update_external_params" /\ last.err = "ok" /\ last.log /= <<>>
    /\ InSeq("counter", bt[<<>>].external_params)
    /\ counter > 1
    /\ acc[<<"task_count">>].pv.bound
    /\ acc[<<"task_count">>].value /= PyVal("int", 0)
    /\ PvGet(acc[<<"task_count">>].pv) = acc[<<"task_count">>].value

----------------------------------------------------------------------------
(* Construction of an accessor *)

\* the param_type argument: a type, or "none" when it is left out
ParamTypes == DeclTypes \cup {"none"}

\* the initial_value argument: a value of any type, or None when it is left
\* out; the values with n = 0 are 0, 0.0, False, '' and []
InitialValues == UNION {ValuesOf(t) : t \in DeclTypes} \cup {NoneVal}

\* PvParameterAccessor.__init__: the type is param_type when that is given,
\* else the type of initial_value when bool(initial_value) is true, else the
\* constructor raises
__init__(writeable, on_get, on_set, param_type, initial_value) ==
    IF param_type /= "none"
    THEN [err |-> "ok",
          a |-> NewAccessor(writeable, on_get, on_set, param_type, initial_value)]
    ELSE IF Truthy(initial_value)
    THEN [err |-> "ok",
          a |-> NewAccessor(writeable, on_get, on_set, initial_value.ty, initial_value)]
    ELSE [err |-> "ParameterTreeError", a |-> NoneVal]

\* no accessor has been constructed yet
CtorInit ==
    /\ acc = <<>>
    /\ source = <<>>
    /\ nrec = 0
    /\ last = NoOp
    /\ tree = <<>>
    /\ bt = <<>>
    /\ counter = 0
    /\ loop = LoopIdle

\* PvParameterAccessor(name, pv_name, on_get, on_set, writeable, initial_value,
\* param_type): arg records the two arguments the type is resolved from
DoConstruct(n, writeable, on_get, on_set, param_type, initial_value) ==
    /\ DOMAIN acc = {}
    /\ LET r == __init__(writeable, on_get, on_set, param_type, initial_value)
       IN  /\ last' = [NoOp EXCEPT !.op = "__init__", !.name = n, !.err = r.err,
                                   !.arg = [param_type |-> param_type,
                                            initial_value |-> initial_value]]
           /\ IF r.err = "ok"
              THEN /\ acc' = [m \in {n} |-> r.a]
                   /\ source' = [m \in {n} |-> PyVal(r.a.type, 0)]
              ELSE UNCHANGED <<acc, source>>
    /\ UNCHANGED <<nrec, tree, bt, counter, loop>>

\* the constructed accessor is read
DoCtorGet(n) == n \in DOMAIN acc /\ DoGet(n)

\* the constructed accessor is bound
DoCtorBind(n) == n \in DOMAIN acc /\ DoBind(n)

CtorNext ==
    \/ \E n \in Names, w \in BOOLEAN, g \in OnGetModes, st \in OnSetModes,
          pt \in ParamTypes, iv \in InitialValues : DoConstruct(n, w, g, st, pt, iv)
    \/ \E n \in Names : DoCtorGet(n)
    \/ \E n \in Names : DoCtorBind(n)

CtorSpec == CtorInit /\ [][CtorNext]_vars

\* C27 as stated: construction raises ParameterTreeError exactly when neither
\* param_type nor an initial value is given; with either of them, 0, False
\* and the empty string included, it succeeds and the declared type is
\* param_type if given, else the type of the initial value.
C27_ConstructionFailsOnlyWithoutBoth ==
    last.op = "__init__" =>
        /\ (last.err = "ParameterTreeError") <=>
               (last.arg.param_type = "none" /\ last.arg.initial_value = NoneVal)
        /\ last.err = "ok" =>
               acc[last.name].type = IF last.arg.param_type /= "none"
                                     THEN last.arg.param_type
                                     ELSE last.arg.initial_value.ty

----------------------------------------------------------------------------
(* The controller's life: construction, initialize, the periodic task, cleanup *)

\* the controller after SoftIocController.__init__: background_task_enable is
\* the constructor's argument, the attribute background_task does not exist
\* yet ("unset"), and neither initialize nor cleanup has been called
NewController(background_task_enable) ==
    LoopIdle @@ [enable |-> background_task_enable, task |-> "unset",
                 initialized |-> FALSE, cleaned |-> FALSE]

ControllerInit ==
    /\ \E e \in BOOLEAN : loop = NewController(e)
    /\ LET a == (<<"task_count">> :>
                     NewAccessor(TRUE, "none", "noop", "int", PyVal("int", 0)))
                @@ (<<"sub_tree", "interesting_pv">> :>
                     NewAccessor(FALSE, "var", "none", "float", PyVal("float", 0)))
           s == (<<"task_count">> :> PyVal("int", 0))
                @@ (<<"sub_tree", "interesting_pv">> :> PyVal("float", 0))
           w == PvParameterTree(a, s, 1, TRUE)
       IN  /\ acc = w.acc
           /\ source = w.source
           /\ nrec = w.nrec
           /\ tree = w.tree
           /\ bt = w.bt
           /\ counter = w.counter
    /\ last = NoOp

\* start_background_task: the enable flag is set and a PeriodicCallback is
\* created and started
start_background_task(c) == [c EXCEPT !.enable = TRUE, !.task = "running"]

\* stop_background_task: the enable flag is cleared, then the attribute
\* background_task is read to stop it, which raises AttributeError when
\* start_background_task never ran
stop_background_task(c) ==
    IF c.task = "unset"
    THEN [c |-> [c EXCEPT !.enable = FALSE], err |-> "AttributeError"]
    ELSE [c |-> [c EXCEPT !.enable = FALSE, !.task = "stopped"], err |-> "ok"]

\* SoftIocController.initialize(adapters)
DoInitialize ==
    /\ ~loop.initialized
    /\ loop' = [(IF loop.enable THEN start_background_task(loop) ELSE loop)
                   EXCEPT !.initialized = TRUE]
    /\ last' = [NoOp EXCEPT !.op = "initialize"]
    /\ UNCHANGED <<acc, source, nrec, tree, bt, counter>>

\* the PeriodicCallback fires background_task_callback
DoPeriodicCallback ==
    /\ loop.task = "running"
    /\ DoBackgroundTask

\* SoftIocController.cleanup(), called once when the adapter is cleaned up
DoCleanup ==
    /\ loop.initialized /\ ~loop.cleaned
    /\ LET r == stop_background_task(loop)
       IN  /\ loop' = [r.c EXCEPT !.cleaned = TRUE]
           /\ last' = [NoOp EXCEPT !.op = "cleanup", !.err = r.err]
    /\ UNCHANGED <<acc, source, nrec, tree, bt, counter>>

ControllerNext ==
    \/ DoInitialize
    \/ DoPeriodicCallback
    \/ \E p \in Leaves : DoRequestGet(p)
    \/ \E p \in Leaves : \E v \in TreeOffered(p) : DoRequestSet(p, v)
    \/ DoCleanup

ControllerSpec == ControllerInit /\ [][ControllerNext]_vars

\* C28 as stated: cleanup() completes without error from every controller
\* state it can be called in, the one where the background task was never
\* started included, and leaves background_task_enable false and no periodic
\* callback running.
C28_CleanupSucceeds ==
    last.op = "cleanup" =>
        /\ last.err = "ok"
        /\ ~loop.enable
        /\ loop.task /= "running"

----------------------------------------------------------------------------
(* Batch set: ParameterTree.set(path, data) with a dict of several leaves *)

\* the longest dict a request sends
MaxBatch == 2

\* the dict nodes a batch is sent to
BatchNodes == {p \in TreePaths : NodeKind(p) = "dict"}

\* the keys a request may name under a dict node: its leaves, and a name the
\* node does not have
BatchKeys(node) ==
    {Items(node)[i] : i \in {j \in 1..Len(Items(node)) :
                                NodeKind(Append(node, Items(node)[j])) /= "dict"}}
        \cup {"bogus"}

\* the values a request sends for a key
BatchOffered(path) ==
    CASE NodeKind(path) = "value"   -> {PyVal(InitialValue(path).ty, 0)}
      [] NodeKind(path) = "missing" -> {PyVal("int", 1)}
      [] OTHER                      -> TreeOffered(path)

\* the dicts of a request: up to MaxBatch items with distinct keys, in the
\* order the dict holds them
BatchData(node) ==
    {d \in UNION {[1..k -> {<<key, v>> : key \in BatchKeys(node),
                                          v \in UNION {BatchOffered(Append(node, q)) :
                                                            q \in BatchKeys(node)}}] :
                      k \in 1..MaxBatch} :
        /\ \A i \in DOMAIN d : d[i][2] \in BatchOffered(Append(node, d[i][1]))
        /\ \A i, j \in DOMAIN d : i /= j => d[i][1] /= d[j][1]}

\* one item of the merge of a dict into a dict node: an unknown key raises,
\* an accessor is set at once, a plain value is type-checked and kept in
\* the local dict "update"
MergeItem(m, node, key, value) ==
    LET path == Append(node, key)
    IN  IF m.err /= "ok" THEN m
        ELSE CASE NodeKind(path) = "missing" -> [m EXCEPT !.err = "invalid-path"]
               [] NodeKind(path) = "dict"    -> [m EXCEPT !.err = "type-mismatch"]
               [] NodeKind(path) = "value"   ->
                    IF m.w.tree[path].ty /= value.ty
                    THEN [m EXCEPT !.err = "type-mismatch"]
                    ELSE [m EXCEPT !.update = (path :> value) @@ @]
               [] OTHER ->
                    LET r == PathSet(m.w, path, value)
                    IN  [m EXCEPT !.w = r.w, !.err = r.err]

RECURSIVE MergeItems(_, _, _, _)
\* for k, v in new_data.items(): the items from the i-th on
MergeItems(m, node, data, i) ==
    IF i > Len(data) THEN m
    ELSE MergeItems(MergeItem(m, node, data[i][1], data[i][2]), node, data, i + 1)

\* ParameterTree.set(path, data) for a dict: the items are merged in order;
\* node.update(update) stores the plain values only when every item went
\* through, an exception leaves the accessors already set as they are
BatchSet(w, node, data) ==
    LET m == MergeItems([w |-> w, update |-> <<>>, err |-> "ok"], node, data, 1)
    IN  IF m.err = "ok"
        THEN TR([m.w EXCEPT !.tree = m.update @@ @], NoneVal, "ok")
        ELSE TR(m.w, NoneVal, m.err)

BatchInit == TreeInitOver({TRUE}, {"var"}, {1}, {PyVal("float", 0)})

\* SoftIocController.set(path, data) with a dict; old records the tree as it
\* was before the call
DoBatchSet(node, data) ==
    LET r == BatchSet(Cur, node, data)
    IN  /\ acc' = r.w.acc
        /\ source' = r.w.source
        /\ nrec' = r.w.nrec
        /\ tree' = r.w.tree
        /\ bt' = r.w.bt
        /\ counter' = r.w.counter
        /\ last' = [NoOp EXCEPT !.op = "batch_set", !.name = node, !.arg = data,
                                !.err = r.err, !.old = Cur]
        /\ UNCHANGED loop

BatchNext ==
    \/ \E node \in BatchNodes : \E data \in BatchData(node) : DoBatchSet(node, data)
    \/ \E p \in Leaves : DoPathGet(p)

BatchSpec == BatchInit /\ [][BatchNext]_vars

\* what a read of the leaf at path gives back, without running a getter
LeafValue(w, path) ==
    CASE NodeKind(path) = "value"             -> w.tree[path]
      [] NodeKind(path) = "ParameterAccessor" -> PyVal("int", w.counter)
      [] OTHER                                -> w.acc[path].value

\* the items of a batch that fail when set on their own
FailingItems(w, node, data) ==
    {i \in DOMAIN data : PathSet(w, Append(node, data[i][1]), data[i][2]).err /= "ok"}

\* C21 as stated: a batch set fails exactly when one of its items fails; the
\* items before the first failing one are applied and stay applied, the
\* failing one and those after it leave their leaves as they were.
C21_BatchFailFastNoRollback ==
    last.op = "batch_set" =>
        LET data == last.arg
            node == last.name
            bad  == FailingItems(last.old, node, data)
            stop == IF bad = {} THEN Len(data) + 1
                    ELSE CHOOSE i \in bad : \A j \in bad : i <= j
        IN  /\ (last.err = "ok") <=> (bad = {})
            /\ \A i \in DOMAIN data :
                 LET path == Append(node, data[i][1])
                 IN  NodeKind(path) /= "missing" =>
                         LeafValue(Cur, path) =
                             IF i < stop THEN data[i][2] ELSE LeafValue(last.old, path)

====
